---- MODULE Spec2Model ----
(***************************************************************************)
(* Model of the grid-engine job orchestration of babylon (cmd/sge.go,      *)
(* cmd/nonmem.go): SGEModel units driven through Prepare, Work, Monitor    *)
(* and Cleanup by a turnstile.Manager, their signals on the ChannelMap,    *)
(* and the run counters the manager keeps.                                 *)
(*                                                                         *)
(* cmd/sge.go holds two versions of the unit: the earlier one sends its    *)
(* failure signals with channel literals (lines 146-267), the later one    *)
(* through recordConcurrentError (lines 440-503, 603-607).  The variable   *)
(* `variant` says which one a run is built from; it never changes.         *)
(***************************************************************************)
EXTENDS Integers, Sequences, FiniteSets, TLC

\* ---------------------------------------------------------------- bounds
NumUnits == 3          \* models named on the command line
Concurrency == 2       \* viper.GetInt("threads")

Units == 1..NumUnits
Phases == {"Prepare", "Work", "Monitor", "Cleanup"}

\* ------------------------------------------------------ sge(): the pool
\* sgeModelsFromArguments: one SGEModel for each model the arguments name.
AllModels == [i \in 1..NumUnits |-> i]

\* sge(): turnstile.NewManager(scalables, uint64(viper.GetInt("threads")))
ManagerConcurrencyAll == NumUnits

ManagerConcurrency == Concurrency

Workers == 1..ManagerConcurrency

\* ------------------------------------------------------------- signals
\* One value sent on a channel of the ChannelMap.  Working, Failed and
\* Completed carry the integer 1; Errors carries a ConcurrentError with
\* RunIdentifier and Notes.  `unit` is the sender.
Sig(kind, u, note) == [kind |-> kind, unit |-> u, note |-> note]

\* Prepare: channels.Working <- 1
StartedAsCompleted(u) == <<Sig("Completed", u, "")>>

StartedSignal(u) == <<Sig("Started", u, "")>>

\* recordConcurrentError: Failed, then Errors, then Completed
recordNoCompleted(u, note) ==
    <<Sig("Failed", u, ""), Sig("Error", u, note)>>

recordNoFailed(u, note) ==
    <<Sig("Error", u, note), Sig("Completed", u, "")>>

recordErrorLast(u, note) ==
    <<Sig("Failed", u, ""), Sig("Completed", u, ""), Sig("Error", u, note)>>

recordErrorFirst(u, note) ==
    <<Sig("Error", u, note), Sig("Failed", u, ""), Sig("Completed", u, "")>>

recordConcurrentError(u, note) ==
    <<Sig("Failed", u, ""), Sig("Error", u, note), Sig("Completed", u, "")>>

\* earlier version: channels.Failed <- 1; channels.Errors <- ConcurrentError{}
channelLiteralFailure(u, note) ==
    <<Sig("Failed", u, ""), Sig("Error", u, note)>>

\* the failure report of a phase, by version
Fail(v, u, note) ==
    IF v = "record" THEN recordConcurrentError(u, note)
                    ELSE channelLiteralFailure(u, note)

\* Cleanup: channels.Completed <- 1
CleanupNothing(u) == <<>>

CleanupTwice(u) == <<Sig("Completed", u, ""), Sig("Completed", u, "")>>

CleanupSignals(u) == <<Sig("Completed", u, "")>>

\* the record kept of the signals a phase sent
Sent(ph, out) == [i \in 1..Len(out) |-> [ph |-> ph, kind |-> out[i].kind]]

\* -------------------------------------------------- the phases' bodies
\* What the environment answers during one Prepare.
\* removeOk: RemoveAll succeeds; mkdirOk: MkdirAll succeeds; readOk: the
\* model file can be opened and stat'ed; scriptOk: generateScript succeeds.
\* At most one of them goes wrong in one Prepare.
PrepareEnv ==
    {e \in [removeOk : BOOLEAN, mkdirOk : BOOLEAN, readOk : BOOLEAN,
            scriptOk : BOOLEAN] :
        Cardinality({f \in {"removeOk", "mkdirOk", "readOk", "scriptOk"} :
                        ~e[f]}) <= 1}

\* What the environment answers during one Work.  lookOk: qsub is on the
\* search path; run: the submission succeeds, exits non-zero, or cannot be
\* launched.
WorkEnv == [lookOk : BOOLEAN, run : {"ok", "exit", "launch"}]

\* afero.WriteFile into the output directory; its error is never looked at,
\* and it fails when the directory is missing.
AddFile(dir, f) == IF "dir" \in dir THEN dir \cup {f} ELSE dir

\* copyFileToDestination: creates the output directory when it is missing
\* (the error of MkdirAll is dropped), reads the model, writes the copy.
\* err is TRUE when the model cannot be read.
copyIgnoresRead(dir, env) ==
    LET made == IF "dir" \in dir \/ env.mkdirOk THEN dir \cup {"dir"}
                                                ELSE dir
    IN  [dir |-> IF env.readOk THEN AddFile(made, "model") ELSE made,
         err |-> FALSE]

copyFileToDestination(dir, env) ==
    LET made == IF "dir" \in dir \/ env.mkdirOk THEN dir \cup {"dir"}
                                                ELSE dir
    IN  IF env.readOk THEN [dir |-> AddFile(made, "model"), err |-> FALSE]
                      ELSE [dir |-> made, err |-> TRUE]

\* WriteGitIgnoreFile: writes the ignore file into the output directory.
WriteGitIgnoreFile(dir) == AddFile(dir, "gitignore")

\* fs.RemoveAll(OutputDir): what is left of the output directory
RemoveAllKeeps(dir) == dir

RemoveAll(dir) == {}

\* SGEModel.Prepare after its Working signal: the output directory it
\* leaves and the signals it sends, for version v.
PrepareBody(v, u, dir, ow, g, env) ==
    IF "dir" \in dir /\ ~ow
    THEN [dir |-> dir, err |-> TRUE, out |-> Fail(v, u, "exists")]
    ELSE IF "dir" \in dir /\ ~env.removeOk
    THEN [dir |-> dir, err |-> TRUE, out |-> Fail(v, u, "remove")]
    ELSE LET copy == copyFileToDestination(RemoveAll(dir), env)
             ign  == IF g THEN WriteGitIgnoreFile(copy.dir) ELSE copy.dir
         IN  IF copy.err
             THEN [dir |-> ign, err |-> TRUE, out |-> Fail(v, u, "copy")]
             ELSE IF ~env.scriptOk
             THEN IF v = "record"
                  THEN [dir |-> ign, err |-> TRUE,
                        out |-> Fail(v, u, "script")]
                  ELSE [dir |-> AddFile(ign, "script"), err |-> TRUE,
                        out |-> Fail(v, u, "script")]
             ELSE [dir |-> AddFile(ign, "script"), err |-> FALSE,
                   out |-> <<>>]

\* qsub accepts the submission: it was found, it ran, and the script name
\* it was given names a file of wd, the files the process's working
\* directory offers to the unit.
Submitted(wd, env) == env.lookOk /\ env.run = "ok" /\ "script" \in wd

\* executeSGEJob: the qsub submission of the later version.  The result of
\* a failed LookPath is dropped, and the command is then run with an empty
\* binary, which fails to launch.
executeSGEJob(dir, wd, env) ==
    IF ~Submitted(wd, env)
    THEN [dir |-> dir, err |-> TRUE, note |-> "run"]
    ELSE [dir |-> AddFile(dir, "out"), err |-> FALSE, note |-> ""]

\* executeNonMemJob: runs the executor it is given on the model.
executeNonMemJob(dir, wd, env) == executeSGEJob(dir, wd, env)

\* SGEModel.Work after its os.Chdir: the output directory it leaves and the
\* signals it sends.
WorkBody(v, u, dir, wd, env) ==
    IF v = "record"
    THEN LET cerr == executeNonMemJob(dir, wd, env)
         IN  [dir |-> cerr.dir, err |-> cerr.err,
              out |-> IF cerr.err THEN recordConcurrentError(u, cerr.note)
                                  ELSE <<>>]
    ELSE IF ~env.lookOk
         THEN [dir |-> dir, err |-> TRUE,
               out |-> channelLiteralFailure(u, "qsub")]
         ELSE IF env.run = "launch"
         THEN [dir |-> dir, err |-> TRUE, out |-> <<>>]
         ELSE IF ~Submitted(wd, env)
         THEN [dir |-> dir, err |-> TRUE,
               out |-> channelLiteralFailure(u, "run")]
         ELSE [dir |-> AddFile(dir, "out"), err |-> FALSE, out |-> <<>>]

\* ------------------------------------------------------------- manager
HasFailed(out) == \E i \in 1..Len(out) : out[i].kind = "Failed"

\* Manager: a unit whose phase reported a failure runs no later phase.
NextPhase(ph, out) ==
    IF HasFailed(out) THEN "idle"
    ELSE CASE ph = "Prepare" -> "Work"
           [] ph = "Work"    -> "Monitor"
           [] ph = "Monitor" -> "Cleanup"
           [] OTHER          -> "idle"

\* ------------------------------------------ the targeted-file policy
\* (cmd/nonmem.go lines 210-401)
MaxLevel == 4          \* copyLvl / cleanLvl range over -1..MaxLevel, and 11
MaxNames == 2          \* longest list of declared, mandatory or excepted files

\* newTargetFile(v, 11): the level given to mandatory copy files
MandatoryLevel == 11

\* viper.GetInt("copyLvl") / viper.GetInt("cleanLvl"): any integer; the
\* small ones and the one that equals the level of the mandatory files
Levels == ((0 - 1)..MaxLevel) \cup {MandatoryLevel}

\* model.Model as strings.Split(file, ".") sees it; one name starts with a
\* blank and one ends with one.
ModelFiles == {<<"run001", "mod">>, <<" run002", "mod">>, <<"r3 ">>}

\* strings.TrimSpace on the names above
TrimLeft(str) == IF str = " run002" THEN "run002" ELSE str

TrimRight(str) == IF str = "r3 " THEN "r3" ELSE str

\* strings.TrimSpace(fmt.Sprintf("%s%s", filename, ext)); no extension of
\* the tables holds a blank.
SprintfTrim(filename, ext) ==
    IF ext = "" THEN TrimRight(TrimLeft(filename))
                ELSE TrimLeft(filename) \o ext

\* getActionableFileList: files[2]
ReservedFiles ==
    <<"background.set", "compile.lnk", "FCON", "FDATA", "FMSG", "FREPORT",
      "FSIZES", "FSTREAM", "FSUBS", "FSUBS.0", "FSUBS.o", "FSUBS_MU.F90",
      "FSUBS.f90", "fsubs.f90", "FSUBS2", "gfortran.txt", "GFCOMPILE.BAT",
      "INTER", "licfile.set", "linkc.lnk", "LINK.LNK", "LINKC.LNK",
      "locfile.set", "maxlim.set", "newline", "nmexec.set",
      "nmpathlist.txt", "nmprd4p.mod", "nobuild.set", "parafile.set",
      "parafprint.set", "prcompile.set", "prdefault.set", "prsame.set",
      "PRSIZES.f90", "rundir.set", "runpdir.set", "simparon.set",
      "temp_dir", "tprdefault.set", "trskip.set", "worker.set",
      "xmloff.set", "fort.2001", "fort.2002", "flushtime.set">>

\* what an exception can name or a caller can demand: a declared table, a
\* reserved literal, a base-name+extension name
FileNames == {"sdtab001", "FCON", "run001.lst"}

NameLists == UNION {[1..n -> FileNames] : n \in 0..MaxNames}

\* what a model can declare: a table of its own, or a reserved literal
DeclaredNames == {"sdtab001", "FCON"}

DeclaredLists == UNION {[1..n -> DeclaredNames] : n \in 0..MaxNames}

\* parser.FindOutputFiles on the lines that were read: nothing when the
\* model could not be read.
FindOutputFiles(readOk, declared) == IF readOk THEN declared ELSE <<>>

\* getActionableFileList: the map files; it has no entry for level 0
files(readOk, declared) ==
    [i \in {1, 2} |-> IF i = 1 THEN FindOutputFiles(readOk, declared)
                               ELSE ReservedFiles]

\* extrapolateFilesFromExtensions: the map extensions
extensionsDeeper ==
    [i \in {1, 2, 3, 4} |->
        CASE i = 1 -> <<".xml", ".grd", ".shk", ".cor", ".cov", ".ext", ".lst">>
          [] i = 2 -> <<".clt", ".coi", ".clt", ".coi", ".cpu", ".shm", ".phi">>
          [] i = 3 -> <<"", "_ETAS", "_RMAT", "_SMAT", ".msf", "_ETAS.msf",
                        "_RMAT.msf", "_SMAT.msf">>
          [] i = 4 -> <<".tmp">>]

extensions ==
    [i \in {1, 2, 3} |->
        CASE i = 1 -> <<".xml", ".grd", ".shk", ".cor", ".cov", ".ext", ".lst">>
          [] i = 2 -> <<".clt", ".coi", ".clt", ".coi", ".cpu", ".shm", ".phi">>
          [] i = 3 -> <<"", "_ETAS", "_RMAT", "_SMAT", ".msf", "_ETAS.msf",
                        "_RMAT.msf", "_SMAT.msf">>]

\* for i := 0; i <= level; i++
TierOnly(level) == <<level>>

TiersOneMore(level) == [k \in 1..(level + 2) |-> k - 1]

TiersUpTo(level) == [k \in 1..(level + 1) |-> k - 1]

\* if val, ok := table[i]; ok { output = append(output, val...) }, for the
\* tiers from the k-th on
RECURSIVE AppendTiers(_, _, _)
AppendTiers(table, tiers, k) ==
    IF k > Len(tiers) THEN <<>>
    ELSE (IF tiers[k] \in DOMAIN table THEN table[tiers[k]] ELSE <<>>)
            \o AppendTiers(table, tiers, k + 1)

extrapolateFilesFromExtensions(filename, level) ==
    AppendTiers([i \in DOMAIN extensions |->
                    [j \in 1..Len(extensions[i]) |->
                        SprintfTrim(filename, extensions[i][j])]],
                TiersUpTo(level), 1)

\* the list with every name kept at its first place only
RECURSIVE Unique(_)
Unique(list) ==
    IF list = <<>> THEN <<>>
    ELSE LET front == Unique(SubSeq(list, 1, Len(list) - 1))
             last  == list[Len(list)]
         IN  IF \E i \in 1..Len(front) : front[i] = last
             THEN front ELSE Append(front, last)

getActionableFileListUnique(file, level, readOk, declared) ==
    Unique(AppendTiers(files(readOk, declared), TiersUpTo(level), 1)
             \o extrapolateFilesFromExtensions(file[1], level))

\* a list that is empty when the model cannot be read
getActionableFileListStrict(file, level, readOk, declared) ==
    IF ~readOk THEN <<>>
    ELSE AppendTiers(files(readOk, declared), TiersUpTo(level), 1)
            \o extrapolateFilesFromExtensions(file[1], level)

getActionableFileList(file, level, readOk, declared) ==
    AppendTiers(files(readOk, declared), TiersUpTo(level), 1)
        \o extrapolateFilesFromExtensions(file[1], level)

newTargetFile(filename, level) == [File |-> filename, Level |-> level]

isFirstException(haystack, needle) ==
    haystack # <<>> /\ haystack[1] = needle

isFilenameInExceptions(haystack, needle) ==
    \E i \in 1..Len(haystack) : haystack[i] = needle

\* filesToCleanup: FilesToRemove
filesToCleanup(file, level, readOk, declared, exceptions) ==
    LET raw  == getActionableFileList(file, level, readOk, declared)
        kept == SelectSeq(raw, LAMBDA v :
                              ~isFilenameInExceptions(exceptions, v))
    IN  [i \in 1..Len(kept) |-> newTargetFile(kept[i], level)]

\* filesToCopy: FilesToCopy
filesToCopyMandatoryAtLevel(file, level, readOk, declared, mandatoryFiles) ==
    LET raw == getActionableFileList(file, level, readOk, declared)
    IN  [i \in 1..Len(mandatoryFiles) |->
            newTargetFile(mandatoryFiles[i], level)]
        \o [i \in 1..Len(raw) |-> newTargetFile(raw[i], level)]

filesToCopy(file, level, readOk, declared, mandatoryFiles) ==
    LET raw == getActionableFileList(file, level, readOk, declared)
    IN  [i \in 1..Len(mandatoryFiles) |->
            newTargetFile(mandatoryFiles[i], MandatoryLevel)]
        \o [i \in 1..Len(raw) |-> newTargetFile(raw[i], level)]

\* The descriptor NewNonMemModel returns when the model cannot be resolved
\* is empty: its paths are "", so the output directory cannot be made and
\* the model cannot be read.
SetupErrorEnv ==
    [removeOk |-> TRUE, mkdirOk |-> FALSE, readOk |-> FALSE, scriptOk |-> TRUE]

VARIABLES
    models,      \* lo.Models: the units the arguments gave, in order
    setupError,  \* per unit: NonMemModel.Error # nil
    preRun,      \* the models the pre-run summary reported as errored
    variant,     \* "channel" or "record": the version of SGEModel
    overwrite,   \* Settings.Overwrite
    git,         \* viper.GetBool("git")
    outDir,      \* per unit: what its output directory holds; {} = missing
    cursor,      \* Manager: index of the next unclaimed operation
    wUnit,       \* per worker: the unit it holds, 0 when it holds none
    wpc,         \* per worker: the step it takes next
    outbox,      \* per worker: the sends of its current phase not yet received
    Working,     \* Manager.Working: Started signals applied
    Errors,      \* Manager.Errors: Failed signals applied
    Completed,   \* Manager.Completed
    ErrorList,   \* Manager.ErrorList
    calls,       \* per unit and phase: how often the phase was invoked
    sigs,        \* per unit: the kinds of the signals it has sent, in order
    claims,      \* per unit: how often a worker claimed it
    failedIn,    \* per unit: the phase that met an error, "" if none did
    callerPc,    \* sge(): "setup", then "fatal", or "polling" until
                 \* IsComplete() and then "done"
    notice,      \* what postWorkNotice read
    cwd,         \* the working directory of the process: the unit whose
                 \* output directory it is, 0 for the directory of the launch
    fFile,       \* file policy: model.Model, as its pieces between dots
    fLevel,      \* file policy: Settings.CopyLvl / Settings.CleanLvl
    fReadOk,     \* file policy: the model in the output directory is readable
    fDeclared,   \* file policy: the output files the model declares
    fExtra,      \* file policy: the variadic mandatoryFiles / exceptions
    fOp,         \* file policy: the function that was called, "none" at first
    fOut         \* file policy: what it returned

vars == <<models, setupError, preRun, variant, overwrite, git,
          outDir, cursor, wUnit, wpc, outbox, Working, Errors, Completed,
          ErrorList, calls, sigs, claims, failedIn, callerPc, notice, cwd,
          fFile, fLevel, fReadOk, fDeclared, fExtra, fOp, fOut>>

policy == <<fFile, fLevel, fReadOk, fDeclared, fExtra, fOp, fOut>>

config == <<models, setupError, variant, overwrite, git>>
counters == <<Working, Errors, Completed, ErrorList>>
caller == <<callerPc, notice, preRun>>

\* sge(): every model of lo.Models becomes one scalable, in order.
ScalablesTwice == <<models[1]>> \o [i \in 1..Len(models) |-> models[i]]

Scalables == [i \in 1..Len(models) |-> models[i]]

\* Manager: the number of operations IsComplete() compares against.
TotalUnits == Len(Scalables)

NoNotice == [Errors |-> -1, ErrorList |-> <<>>, Completed |-> -1]

\* no function of the file policy has been called
PolicyIdle ==
    /\ fFile = <<"run001", "mod">>
    /\ fLevel = 0
    /\ fReadOk = TRUE
    /\ fDeclared = <<>>
    /\ fExtra = <<>>
    /\ fOp = "none"
    /\ fOut = <<>>

\* sge() before it looks at lo.Models; no worker has started.
InitWorkers ==
    /\ preRun = <<>>
    /\ cursor = 1
    /\ wUnit = [w \in Workers |-> 0]
    /\ wpc = [w \in Workers |-> "idle"]
    /\ outbox = [w \in Workers |-> <<>>]
    /\ Working = 0
    /\ Errors = 0
    /\ Completed = 0
    /\ ErrorList = <<>>
    /\ calls = [u \in Units |-> [p \in Phases |-> 0]]
    /\ sigs = [u \in Units |-> <<>>]
    /\ claims = [u \in Units |-> 0]
    /\ failedIn = [u \in Units |-> ""]
    /\ callerPc = "setup"
    /\ notice = NoNotice
    /\ cwd = 0

InitPool == InitWorkers /\ PolicyIdle

\* Every argument resolved to a model without a setup error.
InitCommon ==
    /\ models = AllModels
    /\ setupError = [u \in Units |-> FALSE]
    /\ overwrite \in BOOLEAN
    /\ git \in BOOLEAN
    /\ outDir \in [Units -> {{}, {"dir", "stale"}}]
    /\ InitPool

\* the later version, sge.go lines 403-657
Init == variant = "record" /\ InitCommon

\* the earlier version, sge.go lines 1-401
InitEarlier == variant = "channel" /\ InitCommon

\* The arguments gave any number of models, and NewNonMemModel could not
\* resolve some of them (nonmem.go lines 442-448); the later version.
InitSetup ==
    /\ models \in {[i \in 1..n |-> i] : n \in 0..NumUnits}
    /\ setupError \in {e \in [Units -> BOOLEAN] :
                          \A u \in Units : e[u] => u <= Len(models)}
    /\ variant = "record"
    /\ overwrite = FALSE
    /\ git = FALSE
    /\ outDir = [u \in Units |-> {}]
    /\ InitPool

\* Manager.IsComplete()
IsComplete == Completed = TotalUnits

\* A send on the ChannelMap returns once the consumer has received it, so
\* a worker takes its next step only when none of its sends is outstanding.
ReadyAlways(w) == TRUE

Ready(w) == outbox[w] = <<>>

Invoke(u, ph) == calls' = [calls EXCEPT ![u][ph] = @ + 1]

\* the phase ph of unit u has met an error (err) or not
Met(u, ph, err) ==
    failedIn' = IF err THEN [failedIn EXCEPT ![u] = ph] ELSE failedIn

Send(w, u, ph, out) ==
    /\ outbox' = [outbox EXCEPT ![w] = @ \o out]
    /\ sigs' = [sigs EXCEPT ![u] = @ \o Sent(ph, out)]

\* Manager: the worker goes on to phase `next` of its unit, or lets go of it.
Goto(w, next) ==
    /\ wpc' = [wpc EXCEPT ![w] = next]
    /\ wUnit' = [wUnit EXCEPT ![w] = IF next = "idle" THEN 0 ELSE @]

\* sge(), lines 531-575: the fatal exit when no model was located, the
\* pre-run summary of the models in error, and the start of the manager.
SgeSetup ==
    /\ callerPc = "setup"
    /\ IF Len(models) = 0
       THEN callerPc' = "fatal" /\ preRun' = preRun
       ELSE /\ callerPc' = "polling"
            /\ preRun' = SelectSeq(models, LAMBDA u : setupError[u])
    /\ notice' = notice
    /\ UNCHANGED <<policy, config, cwd, outDir, cursor, wUnit, wpc, outbox, counters,
                   calls, sigs, claims, failedIn>>

\* go m.Execute() has been called.
ManagerStarted == callerPc \in {"polling", "done"}

\* Manager.Execute: an idle worker takes the operation under the cursor.
Claim(w) ==
    /\ ManagerStarted
    /\ wpc[w] = "idle"
    /\ Ready(w)
    /\ cursor <= Len(Scalables)
    /\ wUnit' = [wUnit EXCEPT ![w] = Scalables[cursor]]
    /\ claims' = [claims EXCEPT ![Scalables[cursor]] = @ + 1]
    /\ cursor' = cursor + 1
    /\ wpc' = [wpc EXCEPT ![w] = "Prepare"]
    /\ UNCHANGED <<policy, config, cwd, outDir, outbox, counters, calls, sigs, failedIn,
                   caller>>

\* SGEModel.Prepare, up to its first send.
PrepareStart(w) ==
    /\ wpc[w] = "Prepare"
    /\ Ready(w)
    /\ Invoke(wUnit[w], "Prepare")
    /\ Send(w, wUnit[w], "Prepare", StartedSignal(wUnit[w]))
    /\ Goto(w, "PrepareBody")
    /\ UNCHANGED <<policy, config, cwd, outDir, cursor, counters, claims, failedIn,
                   caller>>

\* SGEModel.Prepare, the rest.
Prepare(w) ==
    /\ wpc[w] = "PrepareBody"
    /\ Ready(w)
    /\ \E env \in IF setupError[wUnit[w]] THEN {SetupErrorEnv} ELSE PrepareEnv :
         LET u == wUnit[w]
             r == PrepareBody(variant, u, outDir[u], overwrite, git, env)
         IN  /\ outDir' = [outDir EXCEPT ![u] = r.dir]
             /\ Send(w, u, "Prepare", r.out)
             /\ Met(u, "Prepare", r.err)
             /\ Goto(w, NextPhase("Prepare", r.out))
    /\ UNCHANGED <<policy, config, cwd, cursor, counters, calls, claims, caller>>

\* os.Chdir(dir) by a goroutine of the process: the working directory is
\* the process's, not the goroutine's; the call fails when the directory is
\* missing, and its error is not looked at.
Chdir(u) == cwd' = IF "dir" \in outDir[u] THEN u ELSE cwd

\* what the relative file names of unit u resolve to in the working
\* directory of the process
Here(u) == IF cwd = u THEN outDir[u] ELSE {}

\* SGEModel.Work, up to os.Chdir(OutputDir)
Work(w) ==
    /\ wpc[w] = "Work"
    /\ Ready(w)
    /\ Invoke(wUnit[w], "Work")
    /\ Chdir(wUnit[w])
    /\ wpc' = [wpc EXCEPT ![w] = "WorkSubmit"]
    /\ UNCHANGED <<policy, config, outDir, cursor, wUnit, outbox, counters,
                   sigs, claims, failedIn, caller>>

\* SGEModel.Work, the rest: exec.LookPath and the qsub command on the
\* relative script name
WorkSubmit(w) ==
    /\ wpc[w] = "WorkSubmit"
    /\ Ready(w)
    /\ \E env \in WorkEnv :
         LET u == wUnit[w]
             r == WorkBody(variant, u, outDir[u], Here(u), env)
         IN  /\ outDir' = [outDir EXCEPT ![u] = r.dir]
             /\ Send(w, u, "Work", r.out)
             /\ Met(u, "Work", r.err)
             /\ Goto(w, NextPhase("Work", r.out))
    /\ UNCHANGED <<policy, config, cwd, cursor, counters, calls, claims,
                   caller>>

\* SGEModel.Monitor
Monitor(w) ==
    /\ wpc[w] = "Monitor"
    /\ Ready(w)
    /\ Invoke(wUnit[w], "Monitor")
    /\ Goto(w, NextPhase("Monitor", <<>>))
    /\ UNCHANGED <<policy, config, cwd, outDir, cursor, outbox, counters, sigs, claims,
                   failedIn, caller>>

\* SGEModel.Cleanup
CleanupDirect(w) ==
    /\ wpc[w] = "Cleanup"
    /\ Ready(w)
    /\ Invoke(wUnit[w], "Cleanup")
    /\ Completed' = Completed + 1
    /\ Goto(w, NextPhase("Cleanup", CleanupSignals(wUnit[w])))
    /\ UNCHANGED <<policy, config, cwd, outDir, cursor, outbox, sigs, Working,
                   Errors, ErrorList, claims, failedIn, caller>>

CleanupRemoves(w) ==
    /\ wpc[w] = "Cleanup"
    /\ Ready(w)
    /\ Invoke(wUnit[w], "Cleanup")
    /\ outDir' = [outDir EXCEPT ![wUnit[w]] = @ \ {"out"}]
    /\ Send(w, wUnit[w], "Cleanup", CleanupSignals(wUnit[w]))
    /\ Goto(w, NextPhase("Cleanup", CleanupSignals(wUnit[w])))
    /\ UNCHANGED <<policy, config, cwd, cursor, counters, claims, failedIn,
                   caller>>

Cleanup(w) ==
    /\ wpc[w] = "Cleanup"
    /\ Ready(w)
    /\ Invoke(wUnit[w], "Cleanup")
    /\ Send(w, wUnit[w], "Cleanup", CleanupSignals(wUnit[w]))
    /\ Goto(w, NextPhase("Cleanup", CleanupSignals(wUnit[w])))
    /\ UNCHANGED <<policy, config, cwd, outDir, cursor, counters, claims, failedIn,
                   caller>>

\* Manager: the one consumer of the four channels receives the send worker
\* w is blocked on and applies it.
Aggregate(w) ==
    /\ outbox[w] # <<>>
    /\ LET s == Head(outbox[w])
       IN  /\ Working' = IF s.kind = "Started" THEN Working + 1 ELSE Working
           /\ Errors' = IF s.kind = "Failed" THEN Errors + 1 ELSE Errors
           /\ Completed' = IF s.kind = "Completed" THEN Completed + 1
                                                   ELSE Completed
           /\ ErrorList' = IF s.kind = "Error"
                           THEN Append(ErrorList, [RunIdentifier |-> s.unit,
                                                   Notes |-> s.note])
                           ELSE ErrorList
    /\ outbox' = [outbox EXCEPT ![w] = Tail(@)]
    /\ UNCHANGED <<policy, config, cwd, outDir, cursor, wUnit, wpc, calls, sigs, claims,
                   failedIn, caller>>

\* sge(): for !m.IsComplete() { sleep }; postWorkNotice(m, now)
SgePoll ==
    /\ callerPc = "polling"
    /\ IF IsComplete
       THEN /\ callerPc' = "done"
            /\ notice' = [Errors |-> Errors, ErrorList |-> ErrorList,
                          Completed |-> Completed]
       ELSE UNCHANGED <<callerPc, notice>>
    /\ preRun' = preRun
    /\ UNCHANGED <<policy, config, cwd, outDir, cursor, wUnit, wpc, outbox, counters,
                   calls, sigs, claims, failedIn>>

PoolNext ==
    \E w \in Workers :
        \/ Claim(w)
        \/ PrepareStart(w)
        \/ Prepare(w)
        \/ Work(w)
        \/ WorkSubmit(w)
        \/ Monitor(w)
        \/ Cleanup(w)
        \/ Aggregate(w)

Next == SgeSetup \/ PoolNext \/ SgePoll

Spec == Init /\ [][Next]_vars

SpecEarlier == InitEarlier /\ [][Next]_vars

\* Every worker goroutine and the consumer goroutine keep being scheduled,
\* and the caller keeps polling.
FairSpec == Spec /\ WF_vars(Next)

FairSpecEarlier == SpecEarlier /\ WF_vars(Next)

\* sge() on arguments that may name models that cannot be resolved
SpecSetup == InitSetup /\ [][Next]_vars

\* ------------------------------------- calls of the targeted-file policy
pool == <<config, cwd, outDir, cursor, wUnit, wpc, outbox, counters, calls, sigs,
          claims, failedIn, caller>>

\* A model, a level, the output files it declares and the caller's list of
\* mandatory files or exceptions; the pool has not been started.
InitFiles ==
    /\ models = AllModels
    /\ setupError = [u \in Units |-> FALSE]
    /\ variant = "record"
    /\ overwrite = FALSE
    /\ git = FALSE
    /\ outDir = [u \in Units |-> {}]
    /\ InitWorkers
    /\ fFile \in ModelFiles
    /\ fLevel \in Levels
    /\ fReadOk \in BOOLEAN
    /\ fDeclared \in IF fReadOk THEN DeclaredLists
                                ELSE {<<>>, <<"sdtab001">>}
    /\ fExtra \in NameLists
    /\ fOp = "none"
    /\ fOut = <<>>

PolicyCall(op, out) ==
    /\ fOp = "none"
    /\ fOp' = op
    /\ fOut' = out
    /\ UNCHANGED <<fFile, fLevel, fReadOk, fDeclared, fExtra, pool>>

GetActionableFileList ==
    PolicyCall("list", getActionableFileList(fFile, fLevel, fReadOk, fDeclared))

FilesToCopy ==
    PolicyCall("copy", filesToCopy(fFile, fLevel, fReadOk, fDeclared, fExtra))

FilesToCleanup ==
    PolicyCall("clean",
               filesToCleanup(fFile, fLevel, fReadOk, fDeclared, fExtra))

NextFiles == GetActionableFileList \/ FilesToCopy \/ FilesToCleanup

SpecFiles == InitFiles /\ [][NextFiles]_vars

\* ------------------------------------------------- what the claims read
Count(s, k) == Cardinality({i \in 1..Len(s) : s[i].kind = k})

\* A worker holds the unit, or a send of the unit is still to be received.
InFlight(u) ==
    \E w \in Workers :
        \/ wUnit[w] = u
        \/ \E i \in 1..Len(outbox[w]) : outbox[w][i].unit = u

NoneInFlight == \A w \in Workers : wpc[w] = "idle" /\ outbox[w] = <<>>

\* Phase ph of unit u reported a failure.
RecordedFailure(u, ph) ==
    \E i \in 1..Len(sigs[u]) :
        sigs[u][i].ph = ph /\ sigs[u][i].kind \in {"Failed", "Error"}

\* A phase of unit u met an error.
UnitFailed(u) == failedIn[u] # ""

RanAllPhases(u) == \A ph \in Phases : calls[u][ph] = 1

\* The lifecycle state of a unit.
UnitState(u) ==
    IF claims[u] = 0 THEN "Pending"
    ELSE IF \E w \in Workers : wUnit[w] = u
    THEN LET w == CHOOSE x \in Workers : wUnit[x] = u
         IN  CASE wpc[w] \in {"Prepare", "PrepareBody"} -> "Preparing"
               [] wpc[w] \in {"Work", "WorkSubmit"} -> "Working"
               [] wpc[w] = "Monitor" -> "Monitoring"
               [] OTHER              -> "CleaningUp"
    ELSE IF InFlight(u)
    THEN IF failedIn[u] = "Prepare" THEN "PrepareFailed"
         ELSE IF failedIn[u] = "Work" THEN "WorkFailed"
         ELSE "CleaningUp"
    ELSE IF UnitFailed(u) THEN "CompletedFailure"
    ELSE "CompletedSuccess"

Terminal(u) == UnitState(u) \in {"CompletedSuccess", "CompletedFailure"}

\* ---------------------------------------------------------------- C1
\* C1: under fair scheduling every run terminates: eventually CompletedCount
\* equals StartedCount and the total unit count, IsComplete() is true and
\* the polling loop of sge() has exited.
C1_Terminates ==
    <>(Completed = TotalUnits /\ Completed = Working /\ callerPc = "done")

\* ---------------------------------------------------------------- C2
\* C2: a unit never signals Completed twice and never both reaches Cleanup
\* and reports a failure; once it is no longer in flight it has signalled
\* Completed exactly once, by exactly one of Cleanup and a failure report,
\* and CompletedCount counts exactly those units.
C2_ExactlyOneCompleted ==
    /\ \A u \in Units :
        /\ Count(sigs[u], "Completed") <= 1
        /\ calls[u]["Cleanup"] + Count(sigs[u], "Failed") <= 1
        /\ (claims[u] > 0 /\ ~InFlight(u)) =>
              /\ Count(sigs[u], "Completed") = 1
              /\ calls[u]["Cleanup"] + Count(sigs[u], "Failed") = 1
    /\ NoneInFlight =>
          Completed = Cardinality({u \in Units : claims[u] > 0})

C2_Witness ==
    \E u, v \in Units :
        /\ UnitState(u) = "CompletedFailure"
        /\ Count(sigs[u], "Completed") = 1
        /\ UnitState(v) = "CompletedSuccess"
        /\ Count(sigs[v], "Completed") = 1
        /\ Completed >= 2

\* ---------------------------------------------------------------- C3
\* C3: a unit whose Prepare reported a failure never has Work, Monitor or
\* Cleanup invoked, and a unit whose Work reported a failure never has
\* Monitor or Cleanup invoked.
C3_ShortCircuit ==
    \A u \in Units :
        /\ RecordedFailure(u, "Prepare") =>
              calls[u]["Work"] = 0 /\ calls[u]["Monitor"] = 0
                                   /\ calls[u]["Cleanup"] = 0
        /\ RecordedFailure(u, "Work") =>
              calls[u]["Monitor"] = 0 /\ calls[u]["Cleanup"] = 0

C3_Witness ==
    /\ Completed = TotalUnits
    /\ callerPc = "done"
    /\ \E u, v \in Units :
        /\ RecordedFailure(u, "Prepare") /\ calls[u]["Work"] = 0
        /\ RecordedFailure(v, "Work") /\ calls[v]["Work"] = 1
                                      /\ calls[v]["Cleanup"] = 0

\* ---------------------------------------------------------------- C4
\* C4: when a phase has returned (all its sends received), a unit that
\* signalled Failed has also signalled one Error and one Completed.
C4_FailedHasCompleted ==
    \A u \in Units :
        (\A w \in Workers : outbox[w] = <<>>) =>
            /\ Count(sigs[u], "Error") = Count(sigs[u], "Failed")
            /\ Count(sigs[u], "Completed") >= Count(sigs[u], "Failed")

\* ---------------------------------------------------------------- C5
\* C5: whenever IsComplete() is true every unit is in a terminal state: none
\* is pending, no worker holds a unit and no send is outstanding.
C5_CompleteMeansTerminal ==
    IsComplete =>
        /\ cursor > Len(Scalables)
        /\ NoneInFlight
        /\ \A u \in Units : Terminal(u)

C5_Witness ==
    /\ IsComplete
    /\ \E u, v \in Units :
          UnitState(u) = "CompletedSuccess" /\ UnitState(v) = "CompletedFailure"

\* ---------------------------------------------------------------- C6
\* C6: at most Concurrency units are in the Working state, and at most
\* Concurrency units are in flight at all.
C6_BoundedConcurrency ==
    /\ Cardinality({u \in Units : UnitState(u) = "Working"}) <= Concurrency
    /\ Cardinality({u \in Units : InFlight(u)}) <= Concurrency

C6_Witness ==
    /\ Cardinality({u \in Units : UnitState(u) = "Working"}) = Concurrency
    /\ \E u \in Units : UnitState(u) = "Pending"

\* ---------------------------------------------------------------- C7
\* C7: no unit is claimed twice or held by two workers, no phase of a unit
\* is invoked twice, and the cursor skips no unit: every operation before
\* the cursor has been claimed once.
C7_ClaimedOnce ==
    /\ \A u \in Units :
        /\ claims[u] <= 1
        /\ \A ph \in Phases : calls[u][ph] <= 1
        /\ Cardinality({w \in Workers : wUnit[w] = u}) <= 1
    /\ \A i \in 1..Len(Scalables) : i < cursor => claims[Scalables[i]] = 1
    /\ cursor > Len(Scalables) => \A u \in Units : claims[u] = 1

C7_Witness ==
    /\ cursor > Len(Scalables)
    /\ \A w \in Workers : wUnit[w] # 0
    /\ \A u \in Units : claims[u] = 1

\* ---------------------------------------------------------------- C8
\* C8: whatever units fail, the run settles with every unit started, every
\* unit that did not fail run once through all four phases, and every unit
\* counted as completed.
AllSettled ==
    /\ Completed = TotalUnits
    /\ \A u \in Units :
        /\ calls[u]["Prepare"] = 1
        /\ Count(sigs[u], "Completed") = 1
        /\ UnitFailed(u) \/ RanAllPhases(u)

C8_FailureIsolation == <>[]AllSettled

C8_Witness ==
    /\ AllSettled
    /\ \E u, v, x \in Units :
        /\ failedIn[u] = "Prepare"
        /\ failedIn[v] = "Work"
        /\ ~UnitFailed(x) /\ RanAllPhases(x)

\* ---------------------------------------------------------------- C9
\* C9: when IsComplete() is true, and in what postWorkNotice read, the error
\* list holds exactly one entry for each unit that failed, none for any
\* other unit, and FailedCount is its length.
ErrorsExact(n, list) ==
    /\ n = Len(list)
    /\ \A u \in Units :
          Cardinality({i \in 1..Len(list) : list[i].RunIdentifier = u})
              = IF UnitFailed(u) THEN 1 ELSE 0

C9_NoFailureLost ==
    /\ IsComplete => ErrorsExact(Errors, ErrorList)
    /\ callerPc = "done" => ErrorsExact(notice.Errors, notice.ErrorList)

C9_Witness ==
    /\ callerPc = "done"
    /\ notice.Errors = 2
    /\ \E u \in Units : ~UnitFailed(u)

\* --------------------------------------------------------------- C10
\* C10: the three counters and the length of the error list never decrease,
\* and whenever no unit is in flight CompletedCount = StartedCount and
\* FailedCount <= CompletedCount.
SteadyCounters == NoneInFlight => Completed = Working /\ Errors <= Completed

C10_RunCounters ==
    /\ SteadyCounters
    /\ [][/\ Working' >= Working
          /\ Errors' >= Errors
          /\ Completed' >= Completed
          /\ Len(ErrorList') >= Len(ErrorList)
          /\ SteadyCounters']_vars

C10_Witness ==
    /\ NoneInFlight
    /\ cursor <= Len(Scalables)
    /\ Working = 2
    /\ Errors = 1
    /\ Completed = 2

\* --------------------------------------------------------------- C11
\* C11: a model whose descriptor carries a setup error is reported in the
\* pre-run summary only: no worker claims it, it sends no signal, the error
\* list has no entry for it, and the unit count IsComplete() compares against
\* counts only the models without a setup error.
Located(u) == \E i \in 1..Len(models) : models[i] = u

Resolved(u) == Located(u) /\ ~setupError[u]

InPreRun(u) == \E i \in 1..Len(preRun) : preRun[i] = u

C11_SetupErrorOutsidePool ==
    /\ \A u \in Units :
          setupError[u] =>
            /\ ManagerStarted => InPreRun(u)
            /\ claims[u] = 0
            /\ sigs[u] = <<>>
            /\ \A i \in 1..Len(ErrorList) : ErrorList[i].RunIdentifier # u
    /\ ManagerStarted =>
          TotalUnits = Cardinality({u \in Units : Resolved(u)})

\* --------------------------------------------------------------- C12
\* C12: sge() exits as fatal, with the pool never started, exactly when no
\* model was resolved; with at least one resolved model the manager is
\* started, and a run whose manager was started is never fatal.
PoolUntouched ==
    /\ cursor = 1
    /\ Working = 0 /\ Errors = 0 /\ Completed = 0 /\ ErrorList = <<>>
    /\ \A u \in Units : claims[u] = 0 /\ sigs[u] = <<>>

C12_FatalIffNothingResolved ==
    /\ callerPc = "fatal" => PoolUntouched
    /\ callerPc # "setup" =>
          (callerPc = "fatal" <=> ~(\E u \in Units : Resolved(u)))
    /\ ~PoolUntouched => callerPc \in {"polling", "done"}

\* --------------------------------------------------------------- C13
\* C13: the phases of a unit are invoked in the order Prepare, Work,
\* Monitor, Cleanup, each at most once and only after all phases before it,
\* and a phase is invoked only when no signal of the unit is still waiting
\* to be applied to the counters.
PhaseOrder == <<"Prepare", "Work", "Monitor", "Cleanup">>

Pending(u) ==
    \E w \in Workers : \E i \in 1..Len(outbox[w]) : outbox[w][i].unit = u

Begins(u, i) == calls'[u][PhaseOrder[i]] # calls[u][PhaseOrder[i]]

C13_PhaseOrder ==
    [][\A u \in Units : \A i \in 1..Len(PhaseOrder) :
          Begins(u, i) =>
            /\ ~Pending(u)
            /\ \A j \in 1..Len(PhaseOrder) :
                  calls[u][PhaseOrder[j]] = IF j < i THEN 1 ELSE 0
            /\ calls'[u][PhaseOrder[i]] = 1]_vars

C13_Witness ==
    \E u, v \in Units :
        /\ RanAllPhases(u) /\ sigs[u] # <<>> /\ ~InFlight(u)
        /\ failedIn[v] = "Work" /\ calls[v]["Monitor"] = 0 /\ ~InFlight(v)

\* --------------------------------------------------------------- C14
\* C14: with overwrite = false, a unit whose output directory exists when
\* Prepare runs keeps that directory as it was through every step, and once
\* its Prepare is over it has signalled exactly Started, Failed, Error and
\* Completed, the error list holds one entry for it whose note is the
\* "already exists" one, and Work, Monitor and Cleanup were never invoked.
\* Only a directory that was there before the run holds the file "stale".
ExistingNoOverwrite(u) == ~overwrite /\ "stale" \in outDir[u]

Kinds(u) == [i \in 1..Len(sigs[u]) |-> sigs[u][i].kind]

EntriesOf(u) == SelectSeq(ErrorList, LAMBDA e : e.RunIdentifier = u)

RefusedOnce(u) ==
    /\ Kinds(u) = <<"Started", "Failed", "Error", "Completed">>
    /\ EntriesOf(u) = <<[RunIdentifier |-> u, Notes |-> "exists"]>>
    /\ calls[u] = [ph \in Phases |-> IF ph = "Prepare" THEN 1 ELSE 0]

C14_ExistingDirRefused ==
    /\ [](\A u \in Units :
            (ExistingNoOverwrite(u) /\ claims[u] = 1 /\ ~InFlight(u)) =>
                RefusedOnce(u))
    /\ [][\A u \in Units :
            ExistingNoOverwrite(u) => outDir'[u] = outDir[u]]_vars

\* --------------------------------------------------------------- C15
\* C15: Prepare never returns without a failure signal when one of its
\* sub-steps failed: a unit whose Prepare returned with no failure reported
\* (the manager has moved it on to Work) has its output directory, the copy
\* of its model and its script on disk.
PrepareReturnedClean(u) ==
    \/ calls[u]["Work"] >= 1
    \/ \E w \in Workers : wUnit[w] = u /\ wpc[w] = "Work"

C15_PrepareFailureReported ==
    \A u \in Units :
        PrepareReturnedClean(u) => {"dir", "model", "script"} \subseteq outDir[u]

\* --------------------------------------------------------------- C16
\* C16: a unit whose Work could not submit (qsub not found, not launched,
\* or exited non-zero) has, once it is no longer in flight, signalled Failed
\* once and Completed once, has one entry in the error list, and was never
\* taken through Monitor and Cleanup as a success.
C16_SubmitFailureRecorded ==
    \A u \in Units :
        (failedIn[u] = "Work" /\ ~InFlight(u)) =>
            /\ Count(sigs[u], "Failed") = 1
            /\ Count(sigs[u], "Completed") = 1
            /\ Len(EntriesOf(u)) = 1
            /\ calls[u]["Monitor"] = 0
            /\ calls[u]["Cleanup"] = 0

\* ------------------------------------------- claims on the file policy
Names(list) == {list[i] : i \in 1..Len(list)}

FileNamesOf(targets) == [i \in 1..Len(targets) |-> targets[i].File]

\* --------------------------------------------------------------- C17
\* C17: for a level L >= 1, every filename getActionableFileList, filesToCopy
\* or filesToCleanup returns for the same model, contents and extra list at
\* level L - 1 is among those the call at level L returned.
C17_LevelMonotone ==
    fLevel >= 1 =>
        /\ fOp = "list" =>
              Names(getActionableFileList(fFile, fLevel - 1, fReadOk, fDeclared))
                  \subseteq Names(fOut)
        /\ fOp = "copy" =>
              Names(FileNamesOf(filesToCopy(fFile, fLevel - 1, fReadOk,
                                            fDeclared, fExtra)))
                  \subseteq Names(FileNamesOf(fOut))
        /\ fOp = "clean" =>
              Names(FileNamesOf(filesToCleanup(fFile, fLevel - 1, fReadOk,
                                               fDeclared, fExtra)))
                  \subseteq Names(FileNamesOf(fOut))

C17_Witness ==
    /\ fOp = "list"
    /\ fLevel = 2
    /\ fReadOk /\ fDeclared # <<>>
    /\ "FCON" \in Names(fOut)
    /\ "sdtab001" \in Names(fOut)
    /\ "run002.lst" \in Names(fOut)

\* --------------------------------------------------------------- C18
\* C18: at every copy level, negative and zero included, FilesToCopy begins
\* with the mandatory files in the order given, each with level 11.
C18_MandatoryFirst ==
    fOp = "copy" =>
        /\ Len(fOut) >= Len(fExtra)
        /\ \A i \in 1..Len(fExtra) :
              fOut[i] = [File |-> fExtra[i], Level |-> 11]

C18_Witness ==
    /\ fOp = "copy"
    /\ fLevel < 0
    /\ fExtra = <<"sdtab001", "run001.lst">>
    /\ Len(fOut) = 2

\* --------------------------------------------------------------- C19
\* C19: FilesToRemove holds no filename of the exceptions list, and holds
\* every other entry of the raw file list, in the order of that list.
C19_ExceptionsFiltered ==
    fOp = "clean" =>
        /\ \A i \in 1..Len(fExtra) : fExtra[i] \notin Names(FileNamesOf(fOut))
        /\ FileNamesOf(fOut) =
              SelectSeq(getActionableFileList(fFile, fLevel, fReadOk, fDeclared),
                        LAMBDA v : v \notin Names(fExtra))

C19_Witness ==
    /\ fOp = "clean"
    /\ fLevel >= 2
    /\ fFile[1] = "run001"
    /\ fReadOk /\ fDeclared = <<"sdtab001", "FCON">>
    /\ fExtra = <<"run001.lst", "FCON">>
    /\ "sdtab001" \in Names(FileNamesOf(fOut))

\* --------------------------------------------------------------- C20
\* C20: at clean level 0 with no exceptions FilesToRemove is empty, whatever
\* the model declares.
C20_LevelZeroEmpty ==
    (fOp = "clean" /\ fLevel = 0 /\ fExtra = <<>>) => fOut = <<>>

C20_Witness ==
    /\ fOp = "clean"
    /\ fLevel = 0
    /\ fExtra = <<>>
    /\ fReadOk /\ Len(fDeclared) = MaxNames
    /\ fOut = <<>>

\* --------------------------------------------------------------- C21
\* C21: at copy level 1, for the model run001 and no mandatory files,
\* FilesToCopy names run001.xml, run001.grd, run001.shk, run001.cor,
\* run001.cov, run001.ext, run001.lst and then the declared output files.
Level1Names ==
    <<"run001.xml", "run001.grd", "run001.shk", "run001.cor", "run001.cov",
      "run001.ext", "run001.lst">>

C21_Level1CopyOrder ==
    (fOp = "copy" /\ fLevel = 1 /\ fFile[1] = "run001" /\ fExtra = <<>>) =>
        FileNamesOf(fOut) = Level1Names \o (IF fReadOk THEN fDeclared ELSE <<>>)

\* --------------------------------------------------------------- C22
\* C22: the file list is in ascending tier order: all names of tier t, the
\* literal ones and the base-name+extension ones, come before any name of
\* tier t + 1.  The names of one tier are its literal table and its
\* extension table, each in table order, in either order of the two.
TierLiterals(t) ==
    CASE t = 1 -> (IF fReadOk THEN fDeclared ELSE <<>>)
      [] t = 2 -> ReservedFiles
      [] OTHER -> <<>>

TierPatterns(t) ==
    IF t \in DOMAIN extensions
    THEN [j \in 1..Len(extensions[t]) |->
             SprintfTrim(fFile[1], extensions[t][j])]
    ELSE <<>>

TierBlocks(t) ==
    {TierLiterals(t) \o TierPatterns(t), TierPatterns(t) \o TierLiterals(t)}

RECURSIVE TierOrders(_, _)
TierOrders(t, level) ==
    IF t > level THEN {<<>>}
    ELSE {b \o rest : b \in TierBlocks(t), rest \in TierOrders(t + 1, level)}

C22_AscendingTiers ==
    fOp = "list" => fOut \in TierOrders(0, fLevel)

\* --------------------------------------------------------------- C23
\* C23: no function of the policy removes duplicates: a filename occurs in
\* the result as often as the tables of the tiers 0..level produce it, plus
\* for filesToCopy as often as it is given as mandatory (for filesToCleanup
\* a name of the exceptions does not occur at all); at level 2 and above
\* <base>.clt and <base>.coi each occur twice in the file list.
Occ(list, n) == Cardinality({i \in 1..Len(list) : list[i] = n})

\* what the tables of the tiers t..level produce, one entry per production
RECURSIVE TierNames(_, _)
TierNames(t, level) ==
    IF t > level THEN <<>>
    ELSE TierLiterals(t) \o TierPatterns(t) \o TierNames(t + 1, level)

OutNames == IF fOp = "list" THEN fOut ELSE FileNamesOf(fOut)

AnyName ==
    Names(OutNames) \cup Names(fExtra) \cup FileNames \cup DeclaredNames
        \cup Names(ReservedFiles)
        \cup UNION {Names(TierPatterns(t)) : t \in DOMAIN extensions}

C23_NoDeduplication ==
    /\ LET produced == TierNames(0, fLevel)
           out      == OutNames
       IN  \A n \in AnyName :
             /\ fOp = "list" => Occ(out, n) = Occ(produced, n)
             /\ fOp = "copy" =>
                   Occ(out, n) = Occ(produced, n) + Occ(fExtra, n)
             /\ fOp = "clean" =>
                   Occ(out, n) = IF n \in Names(fExtra) THEN 0
                                 ELSE Occ(produced, n)
    /\ (fOp = "list" /\ fLevel >= 2) =>
          /\ Occ(fOut, SprintfTrim(fFile[1], ".clt")) = 2
          /\ Occ(fOut, SprintfTrim(fFile[1], ".coi")) = 2

C23_Witness ==
    /\ fOp = "copy"
    /\ fLevel = 2
    /\ fFile[1] = "run001"
    /\ fReadOk /\ fDeclared = <<"FCON", "sdtab001">>
    /\ fExtra = <<"run001.lst", "run001.lst">>
    /\ Occ(OutNames, "run001.lst") = 3
    /\ Occ(OutNames, "FCON") = 2
    /\ Occ(OutNames, "run001.clt") = 2

\* --------------------------------------------------------------- C24
\* C24: every entry of FilesToRemove, and every entry of FilesToCopy that is
\* not a mandatory one, has as its Level the lowest tier whose tables produce
\* its filename, whatever the configured level is.
MinTier(n) ==
    CHOOSE t \in 0..MandatoryLevel :
        /\ n \in Names(TierNames(t, t))
        /\ \A q \in 0..(t - 1) : n \notin Names(TierNames(q, q))

C24_LevelIsMinTier ==
    /\ fOp = "clean" =>
          \A i \in 1..Len(fOut) : fOut[i].Level = MinTier(fOut[i].File)
    /\ fOp = "copy" =>
          \A i \in (Len(fExtra) + 1)..Len(fOut) :
              fOut[i].Level = MinTier(fOut[i].File)

\* --------------------------------------------------------------- C25
\* C25: in FilesToCopy the level 11 of the mandatory entries is greater than
\* the Level of every other entry, at every configured copy level.
C25_SentinelAboveAll ==
    fOp = "copy" =>
        \A i \in (Len(fExtra) + 1)..Len(fOut) : fOut[i].Level < 11


\* ---------------------------------------------------------------- C26
\* the consumer receives the send at the head of worker w's outbox and
\* changes the one counter that signal names, by one
Consumes(w) ==
    /\ outbox[w] # <<>>
    /\ outbox' = [outbox EXCEPT ![w] = Tail(@)]
    /\ LET s == Head(outbox[w])
       IN  /\ Working' = Working + (IF s.kind = "Started" THEN 1 ELSE 0)
           /\ Errors' = Errors + (IF s.kind = "Failed" THEN 1 ELSE 0)
           /\ Completed' = Completed + (IF s.kind = "Completed" THEN 1 ELSE 0)
           /\ ErrorList' = IF s.kind = "Error"
                           THEN Append(ErrorList, [RunIdentifier |-> s.unit,
                                                   Notes |-> s.note])
                           ELSE ErrorList
           /\ Cardinality({c \in 1..4 : counters'[c] # counters[c]}) = 1

\* a phase operation of a unit, or a step of the caller
PhaseOrCallerStep ==
    calls' # calls \/ wpc' # wpc \/ outDir' # outDir \/ sigs' # sigs
        \/ caller' # caller

\* C26: the counters and the error list change only in the step in which
\* the consumer receives a signal, and then exactly the one counter the
\* signal names changes; no phase operation and no step of the caller
\* changes them.
C26_SingleWriter ==
    [][/\ counters' # counters => \E w \in Workers : Consumes(w)
       /\ (\E w \in Workers : outbox[w] # <<>> /\ outbox'[w] = Tail(outbox[w]))
             => \E w \in Workers : Consumes(w)
       /\ PhaseOrCallerStep => counters' = counters]_vars

\* every counter and the error list have been written, and the caller has
\* read them
C26_Witness ==
    /\ Working = NumUnits /\ Completed = NumUnits
    /\ Errors > 0 /\ ErrorList # <<>>
    /\ \E u \in Units : calls[u]["Cleanup"] = 1
    /\ callerPc = "done"

\* ---------------------------------------------------------------- C28
\* C28: a unit whose Prepare met a failing sub-step has had no later
\* filesystem sub-step: its output directory holds no ignore file and no
\* script.
C28_PrepareStopsAtFirstFailure ==
    \A u \in Units :
        failedIn[u] = "Prepare" =>
            "gitignore" \notin outDir[u] /\ "script" \notin outDir[u]

\* ---------------------------------------------------------------- C29
\* worker w runs the body of Prepare for unit u in this step
PrepareStep(w, u) ==
    wUnit[w] = u /\ wpc[w] = "PrepareBody" /\ wpc'[w] # "PrepareBody"

\* the body of Prepare run by worker w reports that the removal failed
ReportsRemoval(w) ==
    \E i \in 1..Len(outbox'[w]) :
        outbox'[w][i].kind = "Error" /\ outbox'[w][i].note = "remove"

\* C29: when Prepare finds the output directory and overwrite is set, either
\* the directory is removed before the copy, and nothing that was in it is
\* in the directory Prepare leaves; or the removal fails, and Prepare
\* records one failure, copies nothing and writes no script.
C29_OverwriteRemovesFirst ==
    [][\A w \in Workers, u \in Units :
          (PrepareStep(w, u) /\ overwrite /\ "dir" \in outDir[u]) =>
              \/ /\ ~ReportsRemoval(w)
                 /\ "stale" \notin outDir'[u]
              \/ /\ ReportsRemoval(w)
                 /\ outDir'[u] = outDir[u]
                 /\ "model" \notin outDir'[u] /\ "script" \notin outDir'[u]
                 /\ failedIn'[u] = "Prepare"
                 /\ Count(sigs'[u], "Failed") = 1
                 /\ Count(sigs'[u], "Error") = 1]_vars

\* with overwrite set, one unit's directory could not be removed and
\* another unit has its model and script in a directory without stale
\* content
C29_Witness ==
    /\ overwrite
    /\ \E u \in Units :
          /\ "stale" \in outDir[u] /\ failedIn[u] = "Prepare"
          /\ \E e \in 1..Len(ErrorList) :
                ErrorList[e].RunIdentifier = u /\ ErrorList[e].Notes = "remove"
    /\ \E u \in Units :
          /\ {"model", "script"} \subseteq outDir[u]
          /\ "stale" \notin outDir[u]

\* ---------------------------------------------------------------- C30
\* no worker holds unit u any more
Released(u) == claims[u] = 1 /\ \A w \in Workers : wUnit[w] # u

\* C30: a unit that has entered Prepare has signalled Started exactly once,
\* as its first signal; a unit none of whose phases met an error has sent no
\* Failed and no Error; and once its phases are over, a unit that succeeded
\* has sent exactly Started, Completed and a unit that failed exactly
\* Started, Failed, Error, Completed.
C30_SignalSequence ==
    \A u \in Units :
        /\ calls[u]["Prepare"] >= 1 =>
              Kinds(u) # <<>> /\ Kinds(u)[1] = "Started"
                  /\ Count(sigs[u], "Started") = 1
        /\ ~UnitFailed(u) =>
              Count(sigs[u], "Failed") = 0 /\ Count(sigs[u], "Error") = 0
        /\ Released(u) =>
              Kinds(u) = IF UnitFailed(u)
                         THEN <<"Started", "Failed", "Error", "Completed">>
                         ELSE <<"Started", "Completed">>

\* one unit went through every phase and another failed, and both are done
C30_Witness ==
    \E u, v \in Units :
        /\ Released(u) /\ ~UnitFailed(u) /\ RanAllPhases(u)
        /\ Kinds(u) = <<"Started", "Completed">>
        /\ Released(v) /\ UnitFailed(v)
        /\ Kinds(v) = <<"Started", "Failed", "Error", "Completed">>

\* ---------------------------------------------------------------- C27
\* worker w starts qsub on the script name of its unit in this step
SubmitStep(w) == wpc[w] = "WorkSubmit" /\ wpc'[w] # "WorkSubmit"

\* C27: whenever a worker starts qsub for a unit whose script was generated,
\* the working directory of the process is that unit's output directory.
C27_SubmitInOwnDirectory ==
    [][\A w \in Workers :
          (SubmitStep(w) /\ "script" \in outDir[wUnit[w]]) =>
              cwd = wUnit[w]]_vars

\* ---------------------------------------------------------------- C31
\* worker w runs Monitor, or Cleanup, of its unit in this step
MonitorStep(w) == wpc[w] = "Monitor" /\ wpc'[w] # "Monitor"

CleanupStep(w) == wpc[w] = "Cleanup" /\ wpc'[w] # "Cleanup"

\* C31: Monitor sends nothing and changes neither a directory nor a counter
\* nor the working directory; Cleanup sends exactly one signal, Completed,
\* and leaves the files of every output directory as they are.
C31_MonitorCleanupFrame ==
    [][\A w \in Workers :
          /\ MonitorStep(w) =>
                /\ outbox' = outbox /\ sigs' = sigs
                /\ outDir' = outDir /\ cwd' = cwd
                /\ counters' = counters /\ failedIn' = failedIn
          /\ CleanupStep(w) =>
                /\ outbox' = [outbox EXCEPT
                                 ![w] = @ \o <<Sig("Completed", wUnit[w], "")>>]
                /\ sigs' = [sigs EXCEPT
                               ![wUnit[w]] = @ \o <<[ph |-> "Cleanup",
                                                     kind |-> "Completed"]>>]
                /\ outDir' = outDir /\ cwd' = cwd
                /\ counters' = counters /\ failedIn' = failedIn]_vars

\* a unit whose submission left its output went through Monitor and
\* Cleanup, and its files are all there
C31_Witness ==
    \E u \in Units :
        /\ calls[u]["Monitor"] = 1 /\ calls[u]["Cleanup"] = 1
        /\ outDir[u] = {"dir", "model", "script", "out"}
        /\ Kinds(u) = <<"Started", "Completed">>

\* ---------------------------------------------------------------- C32
\* the base-name+extension names of the tiers t..level
RECURSIVE PatternsFrom(_, _)
PatternsFrom(t, level) ==
    IF t > level THEN <<>>
    ELSE TierPatterns(t) \o PatternsFrom(t + 1, level)

\* C32: for a model file that cannot be read, the list is the reserved
\* literals (from level 2 on) followed by the base-name+extension names of
\* the tiers 1..level: the declared names contribute nothing and the call
\* returns a list all the same.
C32_UnreadableModel ==
    (fOp = "list" /\ ~fReadOk) =>
        fOut = (IF fLevel >= 2 THEN ReservedFiles ELSE <<>>)
                   \o PatternsFrom(1, fLevel)

\* an unreadable model that declares a table, at level 2: the list is not
\* empty and starts with the reserved literals
C32_Witness ==
    /\ fOp = "list" /\ ~fReadOk /\ fLevel = 2 /\ fFile[1] = "run001"
    /\ fDeclared = <<"sdtab001">>
    /\ Len(fOut) = Len(ReservedFiles) + 14
    /\ fOut[1] = ReservedFiles[1]
    /\ fOut[Len(ReservedFiles) + 1] = "run001.xml"

\* ---------------------------------------------------------------- C36
\* what the tables hold in all: the declared names, the reserved literals,
\* the base-name+extension names of the tiers 1..3
Saturated ==
    (IF fReadOk THEN fDeclared ELSE <<>>) \o ReservedFiles
        \o PatternsFrom(1, 3)

\* C36: from level 3 on the list is the same for every level, namely all
\* the tables hold; below level 0 the list is empty, a copy instruction
\* holds the mandatory files only and a cleanup instruction holds nothing.
C36_LevelSaturation ==
    /\ (fOp = "list" /\ fLevel >= 3) =>
          fOut = Saturated
              /\ fOut = getActionableFileList(fFile, 3, fReadOk, fDeclared)
    /\ (fOp = "list" /\ fLevel < 0) => fOut = <<>>
    /\ (fOp = "copy" /\ fLevel < 0) =>
          fOut = [i \in 1..Len(fExtra) |-> newTargetFile(fExtra[i],
                                                         MandatoryLevel)]
    /\ (fOp = "clean" /\ fLevel < 0) => fOut = <<>>

\* a list at a level above 3, with the three tiers of names in it
C36_Witness ==
    /\ fOp = "list" /\ fLevel > 3 /\ fReadOk /\ fDeclared # <<>>
    /\ fFile[1] = "run001"
    /\ Len(fOut) = Len(fDeclared) + Len(ReservedFiles) + 22
    /\ fOut[Len(fOut)] = "run001_SMAT.msf"

\* ---------------------------------------------------------------- C33
\* C33: in every state, units in flight or not, no more units are completed
\* than started, no more started than there are units, no more failed than
\* started, and the error list is no longer than the count of failures.
C33_CounterOrder ==
    /\ Completed <= Working
    /\ Working <= TotalUnits
    /\ Errors <= Working
    /\ Len(ErrorList) <= Errors

\* units are in flight, one has completed, and a failure has been counted
\* whose error is not yet in the list
C33_Witness ==
    /\ \E w \in Workers : wUnit[w] # 0
    /\ Completed >= 1 /\ Completed < Working
    /\ Errors >= 1 /\ Len(ErrorList) < Errors

\* ---------------------------------------------------------------- C34
\* no worker holds a unit and no send is waiting to be received
Quiet == \A w \in Workers : wUnit[w] = 0 /\ outbox[w] = <<>>

\* C34: once IsComplete() is true it is true in every later state: the
\* count of completed units stays at the number of units, no unit is in a
\* phase or has a send outstanding, and no step sends or counts a signal.
C34_IsCompleteStable ==
    /\ [](IsComplete => Quiet)
    /\ [][IsComplete =>
             /\ IsComplete'
             /\ sigs' = sigs /\ outbox' = outbox /\ counters' = counters]_vars

\* the caller has seen IsComplete() true, after failures and successes
C34_Witness ==
    /\ IsComplete /\ callerPc = "done"
    /\ Errors >= 1 /\ Errors < Completed

\* ---------------------------------------------------------------- C35
\* Prepare of unit u has been run and has returned
PrepareOver(u) ==
    /\ calls[u]["Prepare"] >= 1
    /\ \A w \in Workers : wUnit[w] = u => wpc[w] \notin {"Prepare", "PrepareBody"}

\* C35: a unit whose descriptor carries a setup error never reaches Work:
\* no worker is ever at Work, Monitor or Cleanup for it, nothing is
\* submitted for it, and once its Prepare has returned a failure of Prepare
\* is on record.
C35_SetupErrorNeverWorks ==
    \A u \in Units :
        setupError[u] =>
            /\ calls[u]["Work"] = 0
            /\ \A w \in Workers :
                  wUnit[w] = u => wpc[w] \in {"Prepare", "PrepareBody"}
            /\ "out" \notin outDir[u]
            /\ PrepareOver(u) =>
                  failedIn[u] = "Prepare" /\ RecordedFailure(u, "Prepare")

\* a unit with a setup error was handed to the pool and failed in Prepare,
\* while a unit without one was submitted
C35_Witness ==
    \E u, v \in Units :
        /\ setupError[u] /\ PrepareOver(u) /\ ~InFlight(u)
        /\ failedIn[u] = "Prepare"
        /\ ~setupError[v] /\ "out" \in outDir[v]


====
